---- MODULE Spec2Model ----
(***************************************************************************)
(* Model of the Ambivo GPT-actions facade: the retrying upstream client    *)
(* (AmbivoAPIClient, src/mcp_core.py), the tool dispatcher                 *)
(* (handle_call_tool, src/mcp_core.py) and the two FastAPI endpoints that  *)
(* scope a per-request bearer token onto the shared client                 *)
(* (natural_language_query and execute_tool, src/main.py).                 *)
(*                                                                         *)
(* Every handler is an asyncio coroutine running on one event loop, so a   *)
(* handler runs without interruption from one suspension point to the      *)
(* next.  The only suspension points of the code are                       *)
(*   `await self.client.request(...)`   (mcp_core.py line 70) and          *)
(*   `await asyncio.sleep(wait_time)`   (mcp_core.py line 79);             *)
(* awaiting handle_call_tool / natural_query / _make_request_with_retry    *)
(* runs the awaited coroutine inline.  One action of the model therefore   *)
(* runs a handler from one of these points (or from its start) to the next *)
(* one (or to its end).                                                    *)
(***************************************************************************)
EXTENDS Integers, Sequences, FiniteSets, TLC

(***************************************************************************)
(* Python values                                                           *)
(***************************************************************************)
\* Python's None, for values that are otherwise strings.
None == "<None>"

\* `not v` for an Optional[str]: None and the empty string are falsy.
Falsy(v) == v = None \/ v = ""

\* str.startswith
StartsWith(s, prefix) ==
    /\ Len(s) >= Len(prefix)
    /\ SubSeq(s, 1, Len(prefix)) = prefix

\* `sub in s` for strings
Contains(s, sub) ==
    \E i \in 1..(Len(s) - Len(sub) + 1) : SubSeq(s, i, i + Len(sub) - 1) = sub

\* s[n:]
DropPrefix(s, n) == IF Len(s) <= n THEN "" ELSE SubSeq(s, n + 1, Len(s))

Whitespace == {" ", "\n", "\t"}

IsWs(s, i) == SubSeq(s, i, i) \in Whitespace

\* str.strip(): drop the leading and the trailing whitespace.
Strip(s) ==
    LET n == Len(s)
        first == CHOOSE i \in 1..(n + 1) :
                    /\ i = n + 1 \/ ~IsWs(s, i)
                    /\ \A j \in 1..(i - 1) : IsWs(s, j)
        last == CHOOSE i \in 0..n :
                    /\ i = 0 \/ ~IsWs(s, i)
                    /\ \A j \in (i + 1)..n : IsWs(s, j)
    IN IF first > last THEN "" ELSE SubSeq(s, first, last)

\* c repeated n times
RECURSIVE Rep(_, _)
Rep(c, n) ==
    IF n = 0 THEN ""
    ELSE LET h == Rep(c, n \div 2)
         IN IF n % 2 = 0 THEN h \o h ELSE h \o h \o c

\* b ** e
RECURSIVE Pow(_, _)
Pow(b, e) == IF e = 0 THEN 1 ELSE b * Pow(b, e - 1)

(***************************************************************************)
(* Exceptions and call outcomes                                            *)
(***************************************************************************)
\* An httpx.Response: status code, body text, and what response.json() makes of
\* the body: a mapping, kept as the sequence of its items (key, JSON literal of
\* the value, str() of the value), or a decoding failure (is_json = FALSE).
Response(status_code, body) ==
    [status_code |-> status_code, text |-> body.text,
     is_json |-> body.is_json, json |-> body.json]

Item(key, lit, str) == [key |-> key, lit |-> lit, str |-> str]

BodyCount == [text |-> "{\"count\": 5}", is_json |-> TRUE,
              json |-> <<Item("count", "5", "5")>>]
BodyErrorCode == [text |-> "{\"error_code\": \"E42\"}", is_json |-> TRUE,
                  json |-> <<Item("error_code", "\"E42\"", "E42")>>]
BodyPlain == [text |-> "Bad Gateway", is_json |-> FALSE, json |-> <<>>]

NoResponse == Response(0, [text |-> "", is_json |-> FALSE, json |-> <<>>])

\* An exception object: its class, str(e), the retry-loop iteration whose
\* client.request raised it (-1 when it was not raised there) and, for
\* HTTPStatusError, the response it carries.
Exc(type, msg, attempt, response) ==
    [type |-> type, msg |-> msg, attempt |-> attempt, response |-> response]

NoExc == Exc("", "", -1, NoResponse)

\* except (httpx.TimeoutException, httpx.ConnectError, httpx.ReadError)
TransientTypes == {"TimeoutException", "ConnectError", "ReadError"}

\* json.JSONDecodeError is a subclass of ValueError.
IsValueError(e) == e.type \in {"ValueError", "JSONDecodeError"}

Return(v) == [kind |-> "return", value |-> v, exc |-> NoExc]
Raise(e) == [kind |-> "raise", value |-> None, exc |-> e]

(***************************************************************************)
(* AmbivoAPIClient (src/mcp_core.py)                                       *)
(***************************************************************************)
\* self.timeout, the default of AMBIVO_TIMEOUT
timeout == 30
\* f"{self.timeout}" of the float 30.0
FloatStr(n) == ToString(n) \o ".0"

\* the length limit of natural_query's query
MaxQueryLen == 1000

\* The minimum token length of set_auth_token
MinTokenLen == 10

\* Faulty variant of set_auth_token: `len(token) <= 10`.
set_auth_token_Strict(cur, token) ==
    IF Falsy(token) \/ Len(token) <= MinTokenLen
    THEN [exc |-> Exc("ValueError", "Invalid token format", -1, NoResponse),
          auth_token |-> cur]
    ELSE [exc |-> NoExc, auth_token |-> token]

\* set_auth_token(token) on a client whose token is cur: the exception raised
\* (NoExc when none) and the client's token afterwards.
set_auth_token(cur, token) ==
    IF Falsy(token) \/ Len(token) < MinTokenLen
    THEN [exc |-> Exc("ValueError", "Invalid token format", -1, NoResponse),
          auth_token |-> cur]
    ELSE [exc |-> NoExc, auth_token |-> token]

\* _get_headers(): the Authorization header is absent (None) without a token.
_get_headers(auth_token) ==
    [ContentType |-> "application/json", Accept |-> "application/json",
     Authorization |-> IF Falsy(auth_token) THEN None
                       ELSE "Bearer " \o auth_token]

\* A truthy argument value that is no string (the integer 5): it has no strip().
IntQuery == "<int 5>"

ResponseFormats == {"table", "natural", "both"}

\* Faulty variant of natural_query_validate: the length test is `>=`.
natural_query_validate_AtLimit(query, response_format) ==
    IF Falsy(query)
    THEN Exc("ValueError", "Query cannot be empty", -1, NoResponse)
    ELSE IF query = IntQuery
    THEN Exc("AttributeError", "'int' object has no attribute 'strip'", -1,
             NoResponse)
    ELSE IF Len(Strip(query)) = 0
    THEN Exc("ValueError", "Query cannot be empty", -1, NoResponse)
    ELSE IF Len(query) >= MaxQueryLen
    THEN Exc("ValueError",
             "Query too long. Maximum length: " \o ToString(MaxQueryLen), -1,
             NoResponse)
    ELSE IF response_format \notin ResponseFormats
    THEN Exc("ValueError",
             "Invalid response_format. Must be 'table', 'natural', or 'both'",
             -1, NoResponse)
    ELSE NoExc

\* natural_query's "Basic validation": the exception raised, NoExc when none.
natural_query_validate(query, response_format) ==
    IF Falsy(query)
    THEN Exc("ValueError", "Query cannot be empty", -1, NoResponse)
    ELSE IF query = IntQuery
    THEN Exc("AttributeError", "'int' object has no attribute 'strip'", -1,
             NoResponse)
    ELSE IF Len(Strip(query)) = 0
    THEN Exc("ValueError", "Query cannot be empty", -1, NoResponse)
    ELSE IF Len(query) > MaxQueryLen
    THEN Exc("ValueError",
             "Query too long. Maximum length: " \o ToString(MaxQueryLen), -1,
             NoResponse)
    ELSE IF response_format \notin ResponseFormats
    THEN Exc("ValueError",
             "Invalid response_format. Must be 'table', 'natural', or 'both'",
             -1, NoResponse)
    ELSE NoExc

\* Faulty variant of raise_for_status: only server errors raise.
raise_for_status_ServerOnly(response) ==
    IF response.status_code < 500 THEN NoExc
    ELSE Exc("HTTPStatusError",
             "status " \o ToString(response.status_code), -1, response)

\* response.raise_for_status(): HTTPStatusError unless the status is 2xx.
raise_for_status(response) ==
    IF response.status_code \div 100 = 2 THEN NoExc
    ELSE Exc("HTTPStatusError",
             "status " \o ToString(response.status_code), -1, response)

\* natural_query after _make_request_with_retry returned response
\* (lines 125-129, under the handlers of lines 131-141).
natural_query_returned(response) ==
    LET e == raise_for_status(response)
    IN IF e # NoExc THEN Raise(e)
       ELSE IF ~response.is_json
       THEN Raise(Exc("JSONDecodeError", "Expecting value", -1, NoResponse))
       ELSE Return(response.json)

\* Faulty variant of natural_query_raised: no handler for the timeout.
natural_query_raised_Reraise(e) == Raise(e)

\* natural_query after _make_request_with_retry raised e: the handlers of
\* lines 131-141.  A timeout is replaced by a plain Exception; everything
\* else is re-raised as it is.
natural_query_raised(e) ==
    IF e.type = "TimeoutException"
    THEN Raise(Exc("Exception",
                   "Request timeout after " \o FloatStr(timeout) \o "s", -1,
                   NoResponse))
    ELSE Raise(e)

\* Faulty variant of ShouldRetry: `attempt <= self.max_retries`.
ShouldRetry_Inclusive(attempt, max_retries) == attempt <= max_retries

\* The retry decision of _make_request_with_retry: `attempt < self.max_retries`.
ShouldRetry(attempt, max_retries) == attempt < max_retries

\* Faulty variant of wait_time: 2 * attempt.
wait_time_Linear(attempt) == 2 * attempt

\* wait_time = 2**attempt
wait_time(attempt) == Pow(2, attempt)

(***************************************************************************)
(* Tool dispatcher: handle_call_tool (src/mcp_core.py)                     *)
(***************************************************************************)
TextContent(text) == [type |-> "text", text |-> text]

\* ",\n".join of the items of a mapping, each as `  "key": value`
RECURSIVE JoinItems(_)
JoinItems(items) ==
    IF items = <<>> THEN ""
    ELSE "  \"" \o Head(items).key \o "\": " \o Head(items).lit
         \o (IF Len(items) = 1 THEN "" ELSE ",\n" \o JoinItems(Tail(items)))

\* Faulty variant of json_dumps: the items on one line.
json_dumps_OneLine(result) ==
    IF result = <<>> THEN "{}" ELSE "{" \o JoinItems(result) \o "}"

\* json.dumps(result, indent=2) of a mapping
json_dumps(result) ==
    IF result = <<>> THEN "{}" ELSE "{\n" \o JoinItems(result) \o "\n}"

\* `"error_code" in error_detail`
HasErrorCode(json) == \E i \in 1..Len(json) : json[i].key = "error_code"

\* error_detail['error_code'], as an f-string prints it
ErrorCode(json) ==
    json[CHOOSE i \in 1..Len(json) : json[i].key = "error_code"].str

\* s[:n]
Truncate(s, n) == IF Len(s) <= n THEN s ELSE SubSeq(s, 1, n)

\* The handlers of the try that wraps the whole dispatch (lines 278-296), in
\* the order Python tries them.
outer_except(e) ==
    IF IsValueError(e)
    THEN <<TextContent("Validation Error: " \o e.msg)>>
    ELSE IF e.type = "HTTPStatusError"
    THEN LET error_msg ==
                 "API Error (HTTP " \o ToString(e.response.status_code) \o ")"
         IN <<TextContent(
                 IF e.response.is_json
                 THEN IF HasErrorCode(e.response.json)
                      THEN error_msg \o ": " \o ErrorCode(e.response.json)
                      ELSE error_msg
                 ELSE error_msg \o ": " \o Truncate(e.response.text, 200))>>
    ELSE <<TextContent("Unexpected error: " \o e.msg)>>

\* Faulty variant of natural_query_tool_result: without the inner
\* `except Exception`, and with the outer handlers taking ValueError only.
natural_query_tool_result_Leaky(outcome) ==
    IF outcome.kind = "return"
    THEN Return(<<TextContent("Natural Query Results:\n\n"
                              \o json_dumps(outcome.value))>>)
    ELSE IF outcome.exc.type = "HTTPStatusError"
    THEN Return(<<TextContent("API Error: HTTP "
                              \o ToString(outcome.exc.response.status_code)
                              \o ": " \o outcome.exc.response.text)>>)
    ELSE IF IsValueError(outcome.exc)
    THEN Return(outer_except(outcome.exc))
    ELSE outcome

\* Lines 257-273: how handle_call_tool ends once
\* `await api_client.natural_query(...)` has returned or raised.  The inner
\* `except Exception` takes every exception that is no HTTPStatusError, so
\* none reaches the handlers of outer_except and none leaves the function.
natural_query_tool_result(outcome) ==
    IF outcome.kind = "return"
    THEN Return(<<TextContent("Natural Query Results:\n\n"
                              \o json_dumps(outcome.value))>>)
    ELSE IF outcome.exc.type = "HTTPStatusError"
    THEN LET error_msg ==
                 "HTTP " \o ToString(outcome.exc.response.status_code)
                 \o ": " \o outcome.exc.response.text
         IN Return(<<TextContent("API Error: " \o error_msg)>>)
    ELSE Return(<<TextContent("Error executing natural query: "
                              \o outcome.exc.msg)>>)

\* A coroutine that ran to its end without suspending: its outcome and the
\* shared token it leaves.
Finished(outcome, auth_token) ==
    [suspended |-> FALSE, outcome |-> outcome, auth_token |-> auth_token,
     headers |-> _get_headers(None)]

\* A coroutine suspended in the first client.request of a natural_query: the
\* headers natural_query built and passed on (line 119) and the shared token.
Suspended(headers, auth_token) ==
    [suspended |-> TRUE, outcome |-> Return(None), auth_token |-> auth_token,
     headers |-> headers]

\* api_client.natural_query(query, response_format) up to its first
\* suspension: validation, then the headers of the request (lines 93-120).
natural_query_start(auth_token, query, response_format) ==
    LET e == natural_query_validate(query, response_format)
    IN IF e # NoExc THEN Finished(Raise(e), auth_token)
       ELSE Suspended(_get_headers(auth_token), auth_token)

\* arguments.get(key): None for a missing key
Arguments(token, query, response_format) ==
    [token |-> token, query |-> query, response_format |-> response_format]

\* Faulty variant of set_auth_token_tool: the token argument is stored on the
\* client as it comes, without the check of line 219 or the client's own.
set_auth_token_tool_Unvalidated(auth_token, arguments) ==
    Finished(
        Return(<<TextContent(
            "Authentication token set successfully. You can now use other tools to query the Ambivo API.")>>),
        arguments.token)

\* The branch `name == "set_auth_token"` of handle_call_tool (lines 217-234);
\* the ValueError of api_client.set_auth_token goes to the outer handler.
set_auth_token_tool(auth_token, arguments) ==
    IF Falsy(arguments.token)
    THEN Finished(
             Return(<<TextContent("Error: Authentication token is required")>>),
             auth_token)
    ELSE LET s == set_auth_token(auth_token, arguments.token)
         IN IF s.exc # NoExc
            THEN Finished(Return(outer_except(s.exc)), s.auth_token)
            ELSE Finished(
                     Return(<<TextContent(
                         "Authentication token set successfully. You can now use other tools to query the Ambivo API.")>>),
                     s.auth_token)

\* Faulty variant of natural_query_tool_start: the query check comes before
\* the token check.
natural_query_tool_start_QueryFirst(auth_token, arguments) ==
    IF Falsy(arguments.query)
    THEN Finished(
             Return(<<TextContent("Error: Query parameter is required")>>),
             auth_token)
    ELSE IF Falsy(auth_token)
    THEN Finished(
             Return(<<TextContent(
                 "Error: Authentication required. Please use the 'set_auth_token' tool first.")>>),
             auth_token)
    ELSE LET response_format ==
                 IF arguments.response_format = None THEN "both"
                 ELSE arguments.response_format
             q == natural_query_start(auth_token, arguments.query,
                                      response_format)
         IN IF q.suspended THEN q
            ELSE Finished(natural_query_tool_result(q.outcome), auth_token)

\* The branch `name == "natural_query"` of handle_call_tool up to its first
\* suspension (lines 236-273): the token check, the query check, the call.
natural_query_tool_start(auth_token, arguments) ==
    IF Falsy(auth_token)
    THEN Finished(
             Return(<<TextContent(
                 "Error: Authentication required. Please use the 'set_auth_token' tool first.")>>),
             auth_token)
    ELSE IF Falsy(arguments.query)
    THEN Finished(
             Return(<<TextContent("Error: Query parameter is required")>>),
             auth_token)
    ELSE LET response_format ==
                 IF arguments.response_format = None THEN "both"
                 ELSE arguments.response_format
             q == natural_query_start(auth_token, arguments.query,
                                      response_format)
         IN IF q.suspended THEN q
            ELSE Finished(natural_query_tool_result(q.outcome), auth_token)

\* handle_call_tool(name, arguments) up to its first suspension, on a client
\* holding auth_token (lines 210-276).
handle_call_tool_start(auth_token, name, arguments) ==
    IF name = "set_auth_token"
    THEN set_auth_token_tool(auth_token, arguments)
    ELSE IF name = "natural_query"
    THEN natural_query_tool_start(auth_token, arguments)
    ELSE Finished(Return(<<TextContent("Unknown tool: " \o name)>>),
                  auth_token)

(***************************************************************************)
(* FastAPI endpoints (src/main.py)                                         *)
(***************************************************************************)
\* What an endpoint answers: a returned dict (status 200) or an HTTPException.
Http(status_code, detail, result, success) ==
    [status_code |-> status_code, detail |-> detail, result |-> result,
     success |-> success]

\* The dependency get_auth_token: the HTTPException it raises (status_code 0
\* when none) and the token it extracts.
get_auth_token(authorization) ==
    IF Falsy(authorization)
    THEN [http |-> Http(401, "Authorization header required", "", FALSE),
          token |-> None]
    ELSE IF ~StartsWith(authorization, "Bearer ")
    THEN [http |-> Http(401, "Bearer token required", "", FALSE),
          token |-> None]
    ELSE IF DropPrefix(authorization, 7) = ""
    THEN [http |-> Http(401, "Token cannot be empty", "", FALSE),
          token |-> None]
    ELSE [http |-> Http(0, "", "", FALSE),
          token |-> DropPrefix(authorization, 7)]

\* response_text: every content's text followed by a newline, then strip()
RECURSIVE ConcatTexts(_)
ConcatTexts(contents) ==
    IF contents = <<>> THEN ""
    ELSE Head(contents).text \o "\n" \o ConcatTexts(Tail(contents))

response_text(contents) == Strip(ConcatTexts(contents))

\* How both endpoints end after `await handle_call_tool(...)`: the dict built
\* from the contents it returned, or, had it raised, the HTTPException of the
\* endpoint's `except Exception`.
tool_response(outcome) ==
    IF outcome.kind = "return"
    THEN Return(Http(200, "", response_text(outcome.value), TRUE))
    ELSE Return(Http(500, outcome.exc.msg, "", FALSE))

\* Faulty variant of restore_token: the token is cleared whatever was saved.
restore_token_Clears(original_token) == None

\* The `finally` of both endpoints: "Restore original token".
restore_token(original_token) ==
    IF ~Falsy(original_token) THEN original_token ELSE None

\* execute_tool (POST /tools) up to its first suspension.
execute_tool_start(auth_token, authorization, name, arguments) ==
    LET d == get_auth_token(authorization)
    IN IF d.http.status_code # 0 THEN Finished(Return(d.http), auth_token)
       ELSE LET original_token == auth_token
                s == set_auth_token(auth_token, d.token)
            IN IF s.exc # NoExc
               THEN Finished(Return(Http(500, s.exc.msg, "", FALSE)),
                             s.auth_token)
               ELSE LET c == handle_call_tool_start(s.auth_token, name,
                                                    arguments)
                    IN IF c.suspended THEN c
                       ELSE Finished(tool_response(c.outcome),
                                     restore_token(original_token))

\* natural_language_query (POST /query) up to its first suspension.  The
\* HTTPException of line 362 is raised inside the try of line 338, whose
\* `except Exception` (line 395) turns it into a 500 with detail str(e).
natural_language_query_start(auth_token, authorization, query_text, format_type) ==
    IF Falsy(authorization)
    THEN Finished(
             Return(Http(200, "No authorization header received", "", FALSE)),
             auth_token)
    ELSE IF ~StartsWith(authorization, "Bearer ")
    THEN Finished(
             Return(Http(200, "Authorization header format wrong: '"
                              \o authorization \o "'", "", FALSE)),
             auth_token)
    ELSE LET token == DropPrefix(authorization, 7)
         IN IF Falsy(query_text)
            THEN Finished(
                     Return(Http(500, "400: Query parameter is required", "",
                                 FALSE)),
                     auth_token)
            ELSE LET original_token == auth_token
                     s == set_auth_token(auth_token, token)
                 IN IF s.exc # NoExc
                    THEN Finished(Return(Http(500, s.exc.msg, "", FALSE)),
                                  s.auth_token)
                    ELSE LET c == handle_call_tool_start(
                                      s.auth_token, "natural_query",
                                      Arguments(None, query_text, format_type))
                         IN IF c.suspended THEN c
                            ELSE Finished(tool_response(c.outcome),
                                          restore_token(original_token))

\* The rest of the call stack above a natural_query whose network call ended
\* with outcome: the function that was entered, its result and the shared
\* token it leaves.
Unwind(entry, original_token, auth_token, outcome) ==
    IF entry = "natural_query"
    THEN [outcome |-> outcome, auth_token |-> auth_token]
    ELSE IF entry = "handle_call_tool"
    THEN [outcome |-> natural_query_tool_result(outcome),
          auth_token |-> auth_token]
    ELSE [outcome |-> tool_response(natural_query_tool_result(outcome)),
          auth_token |-> restore_token(original_token)]

(***************************************************************************)
(* State                                                                   *)
(***************************************************************************)
\* The callers that run on the event loop at the same time.
Procs == {"A", "B"}

\* The largest AMBIVO_MAX_RETRIES the model configures the client with.
MaxRetries == 3

VARIABLES
    auth_token,      \* api_client.auth_token, shared by every caller
    max_retries,     \* api_client.max_retries
    pc,              \* per caller: "idle", "request" (suspended in
                     \* client.request), "sleep" (suspended in asyncio.sleep)
                     \* or "done"
    req,             \* per caller: the function entered and its arguments
    original_token,  \* per caller: the endpoint's local original_token
    call,            \* per caller: the locals of _make_request_with_retry and
                     \* the record of what the call did so far
    result           \* per caller: what the entered function returned or raised

vars == <<auth_token, max_retries, pc, req, original_token, call, result>>

\* What a caller entered: the function, its arguments, and the shared token at
\* that moment (set by Begin).
Req(entry, authorization, name, arguments) ==
    [entry |-> entry, authorization |-> authorization, name |-> name,
     arguments |-> arguments, token_at_entry |-> None]

\* The entries that are endpoints of main.py; the other two are the functions
\* of mcp_core.py called directly.
Endpoints == {"POST /tools", "POST /query"}

NoReq == Req("", None, "", Arguments(None, None, None))

\* headers: the kwargs of _make_request_with_retry; attempt, last_exception:
\* its locals; sleeps: the wait_time of every asyncio.sleep so far; sent: for
\* every client.request so far the Authorization header it carried and the
\* shared token at that moment; raised: the class of the exception every
\* failed client.request raised ("" for a request that returned); response:
\* the response client.request returned; outcome: what natural_query returned
\* or raised after its network call.
NoCall ==
    [headers |-> _get_headers(None), attempt |-> 0, last_exception |-> NoExc,
     sleeps |-> <<>>, sent |-> <<>>, raised |-> <<>>, response |-> NoResponse,
     outcome |-> Return(None)]

\* Faulty variant of request_headers: every attempt reads the shared token.
request_headers_Fresh(kwargs_headers, client_token) ==
    _get_headers(client_token)

\* `self.client.request(method, url, **kwargs)`: the headers of an attempt are
\* those natural_query built once and passed down as kwargs.
request_headers(kwargs_headers, client_token) == kwargs_headers

Sent(headers, client_token) ==
    [Authorization |-> request_headers(headers, client_token).Authorization,
     client_token |-> client_token]

\* AMBIVO_AUTH_TOKEN, when the environment sets it
EnvToken == "token-ENV0-0000"

\* AmbivoAPIClient(): `self.auth_token = auth_token or os.getenv(...)`, with
\* the variable unset, set to the empty string, or set to a token.
Init ==
    /\ auth_token \in {None, "", EnvToken}
    /\ max_retries \in 0..MaxRetries
    /\ pc = [p \in Procs |-> "idle"]
    /\ req = [p \in Procs |-> NoReq]
    /\ original_token = [p \in Procs |-> None]
    /\ call = [p \in Procs |-> NoCall]
    /\ result = [p \in Procs |-> Return(None)]

(***************************************************************************)
(* Actions                                                                 *)
(***************************************************************************)
\* Caller p enters the function of r, which runs to its first suspension (c
\* suspended, in the first client.request) or to its end.
Begin(p, r, c) ==
    /\ pc[p] = "idle"
    /\ req' = [req EXCEPT ![p] = [r EXCEPT !.token_at_entry = auth_token]]
    /\ auth_token' = c.auth_token
    /\ UNCHANGED max_retries
    /\ IF c.suspended
       THEN /\ pc' = [pc EXCEPT ![p] = "request"]
            /\ original_token' =
                   [original_token EXCEPT ![p] =
                        IF r.entry \in Endpoints THEN auth_token ELSE None]
            /\ call' = [call EXCEPT ![p] =
                            [NoCall EXCEPT
                                !.headers = c.headers,
                                !.sent = <<Sent(c.headers, c.auth_token)>>]]
            /\ UNCHANGED result
       ELSE /\ pc' = [pc EXCEPT ![p] = "done"]
            /\ result' = [result EXCEPT ![p] = c.outcome]
            /\ UNCHANGED <<original_token, call>>

\* await api_client.natural_query(query, response_format), called directly
StartNaturalQuery(p, query, response_format) ==
    Begin(p, Req("natural_query", None, "natural_query",
                 Arguments(None, query, response_format)),
          natural_query_start(auth_token, query, response_format))

\* api_client.set_auth_token(token), called directly: it returns None or
\* raises its ValueError.
StartSetAuthToken(p, token) ==
    LET s == set_auth_token(auth_token, token)
    IN Begin(p, Req("set_auth_token", None, "set_auth_token",
                    Arguments(token, None, None)),
             Finished(IF s.exc # NoExc THEN Raise(s.exc) ELSE Return(None),
                      s.auth_token))

\* await handle_call_tool(name, arguments), called directly
StartCallTool(p, name, arguments) ==
    Begin(p, Req("handle_call_tool", None, name, arguments),
          handle_call_tool_start(auth_token, name, arguments))

\* POST /tools
StartExecuteTool(p, authorization, name, arguments) ==
    Begin(p, Req("POST /tools", authorization, name, arguments),
          execute_tool_start(auth_token, authorization, name, arguments))

\* POST /query
StartQuery(p, authorization, query_text, format_type) ==
    Begin(p, Req("POST /query", authorization, "natural_query",
                 Arguments(None, query_text, format_type)),
          natural_language_query_start(auth_token, authorization, query_text,
                                       format_type))

\* The network call of p's natural_query ended, leaving the locals c, and
\* natural_query ends with outcome: the callers above it run to their end.
Finish(p, c, outcome) ==
    LET u == Unwind(req[p].entry, original_token[p], auth_token, outcome)
    IN /\ pc' = [pc EXCEPT ![p] = "done"]
       /\ call' = [call EXCEPT ![p] = [c EXCEPT !.outcome = outcome]]
       /\ result' = [result EXCEPT ![p] = u.outcome]
       /\ auth_token' = u.auth_token
       /\ UNCHANGED <<max_retries, req, original_token>>

\* client.request returns a response (line 71); natural_query goes on.
RequestReturns(p, response) ==
    /\ pc[p] = "request"
    /\ Finish(p, [call[p] EXCEPT !.raised = Append(@, ""),
                                 !.response = response],
              natural_query_returned(response))

\* client.request raises one of the exceptions of line 72.
RequestFails(p, type) ==
    /\ pc[p] = "request"
    /\ type \in TransientTypes
    /\ LET e == Exc(type, type, call[p].attempt, NoResponse)
       IN IF ShouldRetry(call[p].attempt, max_retries)
          THEN /\ call' = [call EXCEPT
                              ![p].last_exception = e,
                              ![p].raised = Append(@, type),
                              ![p].sleeps = Append(@, wait_time(call[p].attempt))]
               /\ pc' = [pc EXCEPT ![p] = "sleep"]
               /\ UNCHANGED <<auth_token, max_retries, req, original_token,
                              result>>
          ELSE Finish(p, [call[p] EXCEPT !.last_exception = e,
                                         !.raised = Append(@, type)],
                      natural_query_raised(e))

\* client.request raises an exception line 72 does not catch.
RequestAborts(p, type) ==
    /\ pc[p] = "request"
    /\ type \notin TransientTypes
    /\ Finish(p, [call[p] EXCEPT !.raised = Append(@, type)],
              natural_query_raised(
                  Exc(type, type, call[p].attempt, NoResponse)))

\* asyncio.sleep returns; the loop goes to its next iteration and requests.
SleepReturns(p) ==
    /\ pc[p] = "sleep"
    /\ pc' = [pc EXCEPT ![p] = "request"]
    /\ call' = [call EXCEPT
                    ![p].attempt = @ + 1,
                    ![p].sent = Append(@, Sent(call[p].headers, auth_token))]
    /\ UNCHANGED <<auth_token, max_retries, req, original_token, result>>

\* The caller's function has ended; the caller may enter another one.
Reset(p) ==
    /\ pc[p] = "done"
    /\ pc' = [pc EXCEPT ![p] = "idle"]
    /\ req' = [req EXCEPT ![p] = NoReq]
    /\ original_token' = [original_token EXCEPT ![p] = None]
    /\ call' = [call EXCEPT ![p] = NoCall]
    /\ result' = [result EXCEPT ![p] = Return(None)]
    /\ UNCHANGED <<auth_token, max_retries>>

(***************************************************************************)
(* Inputs                                                                  *)
(***************************************************************************)
\* The bearer token of each concurrent caller
TokenOf == [p \in Procs |-> IF p = "A" THEN "token-AAAA-0001"
                            ELSE "token-BBBB-0002"]

ShortToken == "short"

\* Tokens around the minimum length of set_auth_token
Tokens ==
    {None, "", ShortToken, Rep("t", MinTokenLen - 1), Rep("t", MinTokenLen)}

\* Query strings around the limits of the validation
Queries ==
    {"", "   ", "count leads", " x ", Rep("q", MaxQueryLen),
     Rep("q", MaxQueryLen + 1), " " \o Rep("q", MaxQueryLen)}

Formats == {"table", "natural", "both", "xml"}

ToolNames == {"set_auth_token", "natural_query", "unknown_tool"}

\* The argument bags tried with a tool name
ArgumentBags(name) ==
    IF name = "set_auth_token"
    THEN {Arguments(t, None, None) :
              t \in {None, "", ShortToken, TokenOf["B"]}}
    ELSE IF name = "natural_query"
    THEN {Arguments(None, q, f) :
              q \in Queries \cup {None, IntQuery}, f \in Formats \cup {None}}
    ELSE {Arguments(None, None, None), Arguments(None, "count leads", None)}

Authorizations ==
    {None, "Basic abc", "Bearer ", "Bearer " \o ShortToken,
     "Bearer " \o TokenOf["A"]}

Statuses == {200, 204, 404, 500}

Responses ==
    {Response(st, b) : st \in Statuses, b \in {BodyCount, BodyErrorCode, BodyPlain}}

\* An exception of client.request that the retry loop does not catch
OtherTypes == {"WriteError"}

(***************************************************************************)
(* Specification of one caller at a time                                   *)
(***************************************************************************)
Next ==
    \/ \E t \in Tokens : StartSetAuthToken("A", t)
    \/ \E q \in Queries, f \in Formats : StartNaturalQuery("A", q, f)
    \/ \E n \in ToolNames : \E a \in ArgumentBags(n) : StartCallTool("A", n, a)
    \/ \E h \in Authorizations, n \in ToolNames :
           \E a \in ArgumentBags(n) : StartExecuteTool("A", h, n, a)
    \/ \E h \in Authorizations, q \in Queries, f \in Formats :
           StartQuery("A", h, q, f)
    \/ \E r \in Responses : RequestReturns("A", r)
    \/ \E t \in TransientTypes : RequestFails("A", t)
    \/ \E t \in OtherTypes : RequestAborts("A", t)
    \/ SleepReturns("A")
    \/ Reset("A")

Spec == Init /\ [][Next]_vars

(***************************************************************************)
(* Specification of concurrent callers: every caller of Procs makes one    *)
(* call, with its own bearer token, and the calls interleave at their      *)
(* suspension points.                                                      *)
(***************************************************************************)
Bearer(token) == "Bearer " \o token

NextConcurrent ==
    \E p \in Procs :
        \/ StartQuery(p, Bearer(TokenOf[p]), "count leads", "both")
        \/ StartExecuteTool(p, Bearer(TokenOf[p]), "natural_query",
                            Arguments(None, "count leads", None))
        \/ StartExecuteTool(p, Bearer(TokenOf[p]), "set_auth_token",
                            Arguments(TokenOf[p], None, None))
        \/ StartCallTool(p, "natural_query",
                         Arguments(None, "count leads", None))
        \/ \E r \in {Response(200, BodyCount), Response(500, BodyPlain)} :
               RequestReturns(p, r)
        \/ RequestFails(p, "ConnectError")
        \/ SleepReturns(p)

SpecConcurrent == Init /\ [][NextConcurrent]_vars

(***************************************************************************)
(* Credentials of concurrent requests                                      *)
(***************************************************************************)
\* p is an inbound request of main.py; its own token is the one of its
\* Authorization header.
IsRequest(p) == req[p].entry \in Endpoints
OwnToken(p) == DropPrefix(req[p].authorization, 7)

\* Attempt i of request p went out while the shared client held the token of
\* another request q, set by q after p had set its own.
OvertakenAt(p, q, i) ==
    /\ p # q
    /\ IsRequest(p) /\ IsRequest(q)
    /\ i \in 1..Len(call[p].sent)
    /\ OwnToken(p) # OwnToken(q)
    /\ call[p].sent[i].client_token = OwnToken(q)

\* C1 as stated: of two requests in flight with different tokens A and B, when
\* request B sets token B after request A set token A and before a call of A
\* executes, that call of A is issued with token B's credentials.
C1_CallCarriesOvertakingToken ==
    \A p, q \in Procs :
        \A i \in 1..Len(call[p].sent) :
            OvertakenAt(p, q, i) =>
                call[p].sent[i].Authorization = Bearer(OwnToken(q))

\* C1 (amended): of two requests in flight with different tokens A and B,
\* every upstream call of request A is issued with token A's credentials,
\* also one that executes after request B has set token B on the shared
\* client; no call of A carries token B's credentials.
C1_CallCarriesOwnToken ==
    \A p \in Procs :
        IsRequest(p) =>
            \A i \in 1..Len(call[p].sent) :
                call[p].sent[i].Authorization = Bearer(OwnToken(p))

C1_Witness ==
    \E p, q \in Procs :
        \E i \in 1..Len(call[p].sent) :
            /\ OvertakenAt(p, q, i)
            /\ pc[q] \in {"request", "sleep"}
            /\ call[p].sent[i].Authorization = Bearer(OwnToken(p))

(***************************************************************************)
(* The retry loop of naturalQuery                                          *)
(***************************************************************************)
Is2xx(status_code) == status_code >= 200 /\ status_code <= 299

\* Every client.request of p's call so far failed with a transient failure.
AllTransient(p) ==
    /\ call[p].raised # <<>>
    /\ \A i \in 1..Len(call[p].raised) : call[p].raised[i] \in TransientTypes

\* The last client.request of p's call returned a response.
Answered(p) ==
    /\ call[p].raised # <<>>
    /\ call[p].raised[Len(call[p].raised)] = ""

\* C2: when every attempt of a naturalQuery call fails transiently, the call
\* makes exactly max_retries + 1 outbound attempts and then fails; no call
\* ever makes an attempt number max_retries + 2.
C2_ExhaustionAfterMaxRetriesPlusOne ==
    \A p \in Procs :
        /\ Len(call[p].sent) <= max_retries + 1
        /\ (pc[p] = "done" /\ AllTransient(p)) =>
               /\ Len(call[p].sent) = max_retries + 1
               /\ Len(call[p].raised) = max_retries + 1
               /\ call[p].outcome.kind = "raise"

C2_Witness ==
    \E p \in Procs :
        /\ pc[p] = "done"
        /\ AllTransient(p)
        /\ max_retries >= 2
        /\ Len(call[p].sent) = max_retries + 1

\* C3: when the first k attempts fail transiently (0 <= k <= max_retries) and
\* attempt k + 1 succeeds, the call returns the successful result and has
\* slept exactly 2^0, 2^1, ..., 2^(k-1) seconds in that order, once between
\* each two consecutive attempts.
C3_BackoffThenSuccess ==
    \A p \in Procs :
        (/\ pc[p] = "done"
         /\ Answered(p)
         /\ Is2xx(call[p].response.status_code)
         /\ call[p].response.is_json) =>
            LET k == Len(call[p].raised) - 1
            IN /\ k <= max_retries
               /\ \A i \in 1..k : call[p].raised[i] \in TransientTypes
               /\ call[p].outcome = Return(call[p].response.json)
               /\ Len(call[p].sent) = k + 1
               /\ call[p].sleeps = [i \in 1..k |-> Pow(2, i - 1)]

C3_Witness ==
    \E p \in Procs :
        /\ pc[p] = "done"
        /\ Answered(p)
        /\ Len(call[p].raised) = 3
        /\ call[p].sleeps = <<1, 2>>
        /\ call[p].outcome = Return(BodyCount.json)

\* The last client.request of p's call was answered with a non-2xx status.
AnsweredNon2xx(p) ==
    /\ pc[p] = "done"
    /\ Answered(p)
    /\ ~Is2xx(call[p].response.status_code)

\* naturalQuery failed with an upstream-status error carrying the status code
\* and the body of the response.
FailedWithStatusError(p) ==
    /\ call[p].outcome.kind = "raise"
    /\ call[p].outcome.exc.type = "HTTPStatusError"
    /\ call[p].outcome.exc.response.status_code = call[p].response.status_code
    /\ call[p].outcome.exc.response.text = call[p].response.text

\* C4 as stated: when the upstream answers an attempt with a non-2xx status,
\* naturalQuery makes exactly one outbound attempt, sleeps never, and fails
\* with an upstream-status error carrying status code and body.
C4_ExactlyOneAttemptOnStatus ==
    \A p \in Procs :
        AnsweredNon2xx(p) =>
            /\ Len(call[p].sent) = 1
            /\ call[p].sleeps = <<>>
            /\ FailedWithStatusError(p)

\* C4 (amended): when the upstream answers an attempt with a non-2xx status,
\* naturalQuery makes no attempt and no backoff sleep after that attempt: its
\* attempts are the transiently failed ones before it and that one, with one
\* sleep between each two, so exactly one attempt and no sleep when the first
\* attempt is so answered; and it fails with an upstream-status error
\* carrying the status code and the response body.
C4_NoRetryOnStatus ==
    \A p \in Procs :
        AnsweredNon2xx(p) =>
            LET k == Len(call[p].raised) - 1
            IN /\ \A i \in 1..k : call[p].raised[i] \in TransientTypes
               /\ Len(call[p].sent) = k + 1
               /\ Len(call[p].sleeps) = k
               /\ k = 0 => Len(call[p].sent) = 1 /\ call[p].sleeps = <<>>
               /\ FailedWithStatusError(p)

C4_Witness ==
    \E p \in Procs :
        /\ AnsweredNon2xx(p)
        /\ call[p].response = Response(404, BodyPlain)
        /\ Len(call[p].sent) = 1
        /\ call[p].sleeps = <<>>

(***************************************************************************)
(* Validation in naturalQuery                                              *)
(***************************************************************************)
\* q is empty after trimming: it has whitespace only.
Blank(q) == \A i \in 1..Len(q) : SubSeq(q, i, i) \in {" ", "\n", "\t"}

InvalidInput(q, f) ==
    \/ Blank(q)
    \/ Len(q) > 1000
    \/ f \notin {"table", "natural", "both"}

\* p's function ended by raising a validation error.
RaisedValidationError(p) ==
    /\ pc[p] = "done"
    /\ result[p].kind = "raise"
    /\ result[p].exc.type = "ValueError"

\* C5: naturalQuery fails with a validation error and makes zero outbound
\* calls whenever the query is empty after trimming, longer than 1000
\* characters, or the response format is none of "table", "natural", "both";
\* a (non-blank) query of exactly 1000 characters with a valid format is not
\* rejected: its request goes out.
C5_ValidationBeforeNetwork ==
    \A p \in Procs :
        req[p].entry = "natural_query" =>
            LET q == req[p].arguments.query
                f == req[p].arguments.response_format
            IN /\ InvalidInput(q, f) =>
                      RaisedValidationError(p) /\ call[p].sent = <<>>
               /\ (Len(q) = 1000 /\ ~Blank(q) /\ ~InvalidInput(q, f)) =>
                      ~RaisedValidationError(p) /\ call[p].sent # <<>>

C5_Witness ==
    \E p \in Procs :
        /\ req[p].entry = "natural_query"
        /\ Len(req[p].arguments.query) = 1001
        /\ req[p].arguments.response_format = "both"
        /\ RaisedValidationError(p)
        /\ call[p].sent = <<>>

(***************************************************************************)
(* callTool                                                                *)
(***************************************************************************)
\* p called handle_call_tool directly and it has ended.
CallToolDone(p) == pc[p] = "done" /\ req[p].entry = "handle_call_tool"

\* handle_call_tool("natural_query", ...) of p got as far as calling the
\* client's natural_query: the client held a token and the query was there.
Delegated(p) ==
    /\ CallToolDone(p)
    /\ req[p].name = "natural_query"
    /\ ~Falsy(req[p].token_at_entry)
    /\ ~Falsy(req[p].arguments.query)

\* The text of the single result of p's handle_call_tool
ResultText(p) == result[p].value[1].text

\* C6: for every tool name, every argument bag and every outcome of the
\* client, callTool returns a non-empty list of text results and propagates
\* no exception.
C6_CallToolNeverRaises ==
    \A p \in Procs :
        CallToolDone(p) =>
            /\ result[p].kind = "return"
            /\ Len(result[p].value) >= 1
            /\ \A i \in 1..Len(result[p].value) :
                   result[p].value[i].type = "text"

C6_Witness ==
    \E p \in Procs :
        /\ Delegated(p)
        /\ AllTransient(p)
        /\ call[p].outcome.kind = "raise"
        /\ result[p].kind = "return"
        /\ Len(result[p].value) = 1

\* C7: when callTool("natural_query", ...) delegates to the client and
\* naturalQuery fails with a validation error (whitespace-only query, query
\* over 1000 characters, invalid response_format), the returned text is
\* prefixed "Validation Error: ".
C7_ValidationErrorPrefix ==
    \A p \in Procs :
        (/\ Delegated(p)
         /\ req[p].arguments.query # IntQuery
         /\ InvalidInput(req[p].arguments.query,
                         IF req[p].arguments.response_format = None
                         THEN "both" ELSE req[p].arguments.response_format)) =>
            /\ result[p].kind = "return"
            /\ StartsWith(ResultText(p), "Validation Error: ")

\* C8: when callTool("natural_query", ...) delegates and the upstream returns
\* a non-2xx status, the returned text is prefixed "API Error: " and includes
\* the status code and the body, except that with an error-code field in the
\* body it reports that error code in preference to the raw body.
C8_ApiErrorPrefersErrorCode ==
    \A p \in Procs :
        (Delegated(p) /\ AnsweredNon2xx(p)) =>
            LET r == call[p].response
            IN /\ result[p].kind = "return"
               /\ StartsWith(ResultText(p), "API Error: ")
               /\ Contains(ResultText(p), ToString(r.status_code))
               /\ IF r.is_json /\ HasErrorCode(r.json)
                  THEN /\ Contains(ResultText(p), ErrorCode(r.json))
                       /\ ~Contains(ResultText(p), r.text)
                  ELSE Contains(ResultText(p), r.text)

\* C9: when callTool("natural_query", ...) delegates and the client fails
\* with a transient network error after retry exhaustion, or with any other
\* unexpected failure, the returned text is prefixed "Unexpected error: ".
C9_UnexpectedErrorPrefix ==
    \A p \in Procs :
        (/\ Delegated(p)
         /\ call[p].raised # <<>>
         /\ call[p].raised[Len(call[p].raised)] \in TransientTypes \cup OtherTypes) =>
            /\ result[p].kind = "return"
            /\ StartsWith(ResultText(p), "Unexpected error: ")

(***************************************************************************)
(* The failure naturalQuery surfaces after exhaustion                      *)
(***************************************************************************)
\* p's call ended because its last permitted attempt failed transiently.
Exhausted(p) ==
    /\ pc[p] = "done"
    /\ AllTransient(p)
    /\ Len(call[p].raised) = max_retries + 1

LastRaised(p) == call[p].raised[Len(call[p].raised)]

\* naturalQuery surfaced the exception raised by the last attempt.
SurfacedLast(p) ==
    /\ call[p].outcome.kind = "raise"
    /\ call[p].outcome.exc.type = LastRaised(p)
    /\ call[p].outcome.exc.attempt = Len(call[p].raised) - 1

\* C10 as stated: after retries are exhausted, the failure naturalQuery
\* surfaces is the last transient exception that occurred, of the same kind,
\* for each of timeout, connect failure and read failure.
C10_SurfacesLastTransient ==
    \A p \in Procs : Exhausted(p) => SurfacedLast(p)

\* C10 (amended): after retries are exhausted, the failure naturalQuery
\* surfaces is the last transient exception that occurred when that one is a
\* connect failure or a read failure; when it is a timeout, naturalQuery
\* surfaces a plain exception "Request timeout after <timeout>s" in its place.
C10_SurfacesLastOrTimeoutMessage ==
    \A p \in Procs :
        Exhausted(p) =>
            IF LastRaised(p) \in {"ConnectError", "ReadError"}
            THEN SurfacedLast(p)
            ELSE /\ LastRaised(p) = "TimeoutException"
                 /\ call[p].outcome.kind = "raise"
                 /\ call[p].outcome.exc.type = "Exception"
                 /\ call[p].outcome.exc.msg = "Request timeout after 30.0s"

C10_Witness ==
    \E p \in Procs :
        /\ Exhausted(p)
        /\ max_retries >= 1
        /\ call[p].raised[1] = "ConnectError"
        /\ LastRaised(p) = "TimeoutException"
        /\ call[p].outcome.exc.type = "Exception"

(***************************************************************************)
(* The tools of handle_call_tool and the client's token                    *)
(***************************************************************************)
\* handle_call_tool(name, ...) was called directly by p and has ended.
CallToolEnded(p, name) ==
    /\ req[p].entry = "handle_call_tool"
    /\ req[p].name = name
    /\ pc[p] = "done"

\* handle_call_tool never suspends on a path that ends before natural_query.
NeverSuspended(p) == pc[p] # "idle" => (pc[p] = "done" /\ call[p].sent = <<>>)

\* C11: callTool("natural_query", args) on a client that holds no token
\* returns a single text result that tells the caller to authenticate with
\* the set_auth_token tool first, and makes no outbound call, for every
\* argument bag, also one without a query: the token check comes first.
C11_NoTokenNoCall ==
    \A p \in Procs :
        ( /\ req[p].entry = "handle_call_tool"
          /\ req[p].name = "natural_query"
          /\ Falsy(req[p].token_at_entry) ) =>
            /\ NeverSuspended(p)
            /\ result[p].kind = "return"
            /\ Len(result[p].value) = 1
            /\ result[p].value[1].type = "text"
            /\ Contains(result[p].value[1].text, "Authentication required")
            /\ Contains(result[p].value[1].text, "'set_auth_token' tool first")

C11_Witness ==
    \E p \in Procs :
        /\ CallToolEnded(p, "natural_query")
        /\ Falsy(req[p].token_at_entry)
        /\ req[p].arguments.query = None
        /\ call[p].sent = <<>>
        /\ Contains(result[p].value[1].text, "Authentication required")

\* C12: callTool("set_auth_token", args) with the token missing or empty
\* returns exactly one text result containing "required" and leaves the
\* client's token as it was, whatever it was.
C12_MissingTokenKeepsToken ==
    \A p \in Procs :
        ( /\ CallToolEnded(p, "set_auth_token")
          /\ req[p].arguments.token \in {None, ""} ) =>
            /\ result[p].kind = "return"
            /\ Len(result[p].value) = 1
            /\ result[p].value[1].type = "text"
            /\ Contains(result[p].value[1].text, "required")
            /\ auth_token = req[p].token_at_entry

C12_Witness ==
    \E p \in Procs :
        /\ CallToolEnded(p, "set_auth_token")
        /\ req[p].arguments.token = ""
        /\ req[p].token_at_entry = TokenOf["B"]
        /\ auth_token = TokenOf["B"]
        /\ Contains(result[p].value[1].text, "required")

\* C13: setToken(token) succeeds and makes token the shared token exactly
\* when token is a non-empty string of at least 10 characters; for an empty
\* or shorter token it fails with a validation error and the shared token
\* is unchanged.
C13_SetTokenIffLongEnough ==
    \A p \in Procs :
        (req[p].entry = "set_auth_token" /\ pc[p] = "done") =>
            LET token == req[p].arguments.token
            IN IF token # None /\ token # "" /\ Len(token) >= 10
               THEN /\ result[p] = Return(None)
                    /\ auth_token = token
               ELSE /\ result[p].kind = "raise"
                    /\ result[p].exc.type = "ValueError"
                    /\ auth_token = req[p].token_at_entry

C13_Witness ==
    \E p \in Procs :
        /\ req[p].entry = "set_auth_token"
        /\ pc[p] = "done"
        /\ Len(req[p].arguments.token) = 10
        /\ req[p].token_at_entry # req[p].arguments.token
        /\ result[p] = Return(None)
        /\ auth_token = req[p].arguments.token

(***************************************************************************)
(* The successful natural_query tool call                                  *)
(***************************************************************************)
\* The upstream call of p succeeded: a 2xx response with a JSON body.
UpstreamSucceeded(p) ==
    /\ Answered(p)
    /\ Is2xx(call[p].response.status_code)
    /\ call[p].response.is_json

\* What `json.dumps(result, indent=2)` prints for the JSON bodies of Responses
PrettyPrinted(text) ==
    IF text = "{\"count\": 5}" THEN "{\n  \"count\": 5\n}"
    ELSE IF text = "{\"error_code\": \"E42\"}"
    THEN "{\n  \"error_code\": \"E42\"\n}"
    ELSE "?"

\* C14: when the client holds a token, the query is there and the upstream
\* call succeeds, callTool("natural_query", ...) returns exactly one text
\* result, the fixed label followed by the pretty-printed JSON of the
\* upstream response, and every upstream attempt carried the token the
\* client held when the tool call was dispatched.
C14_LabelledPrettyResult ==
    \A p \in Procs :
        (Delegated(p) /\ UpstreamSucceeded(p)) =>
            /\ result[p] =
                   Return(<<TextContent(
                       "Natural Query Results:\n\n"
                       \o PrettyPrinted(call[p].response.text))>>)
            /\ \A i \in 1..Len(call[p].sent) :
                   call[p].sent[i].Authorization =
                       "Bearer " \o req[p].token_at_entry

C14_Witness ==
    \E p \in Procs :
        /\ Delegated(p)
        /\ UpstreamSucceeded(p)
        /\ call[p].response = Response(200, BodyCount)
        /\ Len(call[p].sent) = 2
        /\ ResultText(p) = "Natural Query Results:\n\n{\n  \"count\": 5\n}"
        /\ call[p].sent[2].Authorization = "Bearer " \o TokenOf["B"]

(***************************************************************************)
(* Set, call, restore: the shared token around inbound requests            *)
(***************************************************************************)
\* The token a client holds: None and the empty string both are no token,
\* as in every test the code makes of it (`if self.auth_token`,
\* `if not api_client.auth_token`, `if original_token`).
Held(token) == IF Falsy(token) THEN None ELSE token

\* No caller is inside a function, and some caller has been in one.
Quiescent ==
    /\ \A p \in Procs : pc[p] \in {"idle", "done"}
    /\ \E p \in Procs : pc[p] = "done"

\* The callers that entered while the client held no caller's token: the
\* first to enter is one of them, and any other entered after the ones before
\* it had ended and restored the very token the first one found.
EnteredUntouched ==
    {p \in Procs : /\ pc[p] # "idle"
                   /\ req[p].token_at_entry \notin {TokenOf[q] : q \in Procs}}

\* The token the client held before the first caller entered
TokenBeforeFirst ==
    Held(req[CHOOSE p \in EnteredUntouched : TRUE].token_at_entry)

\* C15: for any interleaving of concurrent requests that each set their
\* token on the shared client, call, and restore the saved token, once all
\* requests have completed the shared token is the one held before the first
\* request started; no request's token outlives that request.
C15_RestoredAfterAllRequests ==
    Quiescent =>
        /\ Held(auth_token) = TokenBeforeFirst
        /\ \A p \in Procs : IsRequest(p) => auth_token # OwnToken(p)

\* C16: a single inbound request, with no other request in flight, leaves
\* the shared client holding the token it held before the request, on every
\* exit path and for every tool name; a set_auth_token tool call through
\* POST /tools has no lasting effect.
C16_RequestLeavesTokenAsFound ==
    \A p \in Procs :
        (IsRequest(p) /\ pc[p] = "done") =>
            Held(auth_token) = Held(req[p].token_at_entry)

C16_Witness ==
    \E p \in Procs :
        /\ req[p].entry = "POST /tools"
        /\ req[p].name = "set_auth_token"
        /\ req[p].arguments.token = TokenOf["B"]
        /\ req[p].token_at_entry = EnvToken
        /\ pc[p] = "done"
        /\ result[p].value.status_code = 200
        /\ Contains(result[p].value.result, "token set successfully")
        /\ auth_token = EnvToken

\* C17: all outbound attempts of one naturalQuery call carry the same
\* Authorization value, the one built from the shared token when the call
\* built its headers (the moment of its first attempt); what other requests
\* do to the shared token during a sleep or an attempt in flight does not
\* alter a later attempt.
C17_AttemptsShareAuthorization ==
    \A p \in Procs :
        \A i \in 1..Len(call[p].sent) :
            /\ call[p].sent[i].Authorization = call[p].sent[1].Authorization
            /\ call[p].sent[i].Authorization =
                   "Bearer " \o call[p].sent[1].client_token

C17_Witness ==
    \E p \in Procs :
        /\ Len(call[p].sent) >= 3
        /\ call[p].sent[2].client_token # call[p].sent[1].client_token
        /\ call[p].sent[3].client_token # call[p].sent[2].client_token
        /\ call[p].sent[3].Authorization =
               "Bearer " \o call[p].sent[1].client_token

\* C18: POST /query with a well-formed Bearer header and an empty query is
\* answered with HTTP 400 ("Query parameter is required"), without changing
\* the shared token and without an outbound call.
C18_EmptyQueryIs400 ==
    \A p \in Procs :
        ( /\ req[p].entry = "POST /query"
          /\ req[p].authorization = "Bearer " \o TokenOf["A"]
          /\ req[p].arguments.query = "" ) =>
            /\ pc[p] = "done"
            /\ call[p].sent = <<>>
            /\ auth_token = req[p].token_at_entry
            /\ result[p].value.status_code = 400
            /\ Contains(result[p].value.detail, "Query parameter is required")

====
